---------------------------- MODULE Spec2Model ----------------------------
(***************************************************************************)
(* State-machine model of the DAGShield on-ledger subsystem:               *)
(*   contracts/DAGShieldToken.sol      (stake ledger, capped issuance)     *)
(*   contracts/DAGShieldOracle.sol     (DAG batch processor, alert         *)
(*                                      consensus, cross-chain relay)      *)
(*   contracts/DePINNodeRegistry.sol   (node registry, reputation, rewards)*)
(*                                                                         *)
(* Every external call of a contract is one atomic action; a call that     *)
(* reverts leaves the state unchanged and is therefore not a step.         *)
(*                                                                         *)
(* Units.  Token amounts are counted in whole DAG (the source's 10**18 is  *)
(* ONE_DAG = 1) and time in whole days (the source's 86400 seconds is      *)
(* DAY = 1), so that every product stays inside TLC's integers.  All        *)
(* divisions are the source's truncating integer divisions.  A quantity    *)
(* the source computes in base units (10**-18 DAG) is kept in base units   *)
(* and enters a DAG amount through WholeDAG.                               *)
(***************************************************************************)
EXTENDS Integers, Naturals, Sequences, FiniteSets, TLC

\* ------------------------------------------------------------------------
\* Bounds of the model
\* ------------------------------------------------------------------------
MaxTokenSteps == 6
MaxOracleSteps == 5
MaxRegistrySteps == 5
MaxTime == 1
MaxTokenNodes == 1
MaxIssuanceSteps == 5
MaxCollateralSteps == 5
MaxChallengeSteps == 11
MaxChallenges == 1
MaxChallengeDays == 1

\* ------------------------------------------------------------------------
\* Units and program constants
\* ------------------------------------------------------------------------
ONE_DAG == 1
DAY == 1
YEAR == 365 * DAY

MAX_SUPPLY == 1000000000 * ONE_DAG
INITIAL_SUPPLY == 100000000 * ONE_DAG
STAKING_APY == 1250
MIN_STAKE_AMOUNT == 1000 * ONE_DAG
UNSTAKE_COOLDOWN == 7 * DAY

\* ------------------------------------------------------------------------
\* Identities
\* ------------------------------------------------------------------------
Deployer == "deployer"
Users == {"deployer", "alice"}
TokenAddr == "token"
RegistryAddr == "registry"
Addrs == Users \cup {TokenAddr, RegistryAddr}
NoAddr == "0x0"

VARIABLES
    now,
    stepsLeft,
    balances,
    totalSupply,
    stakes,
    nodes,
    totalStaked,
    totalNodes,
    tokenThreatsDetected,
    rewardPool,
    paused,
    allowance,
    \* DAGShieldOracle
    chainid,
    dagTransactions,
    pendingDAGTxs,
    threatAlerts,
    activeThreatAlerts,
    crossChainAlerts,
    authorizedNodes,
    supportedChains,
    totalThreatsDetected,
    totalDAGTransactions,
    pendingRequests,
    requestCount,
    alertSubmitters,
    \* DePINNodeRegistry
    depinNodes,
    ownerNodes,
    deviceTypeCounts,
    nodeRewards,
    allNodeIds,
    networkMetrics,
    playerLevels,
    experiencePoints,
    registryPaused,
    challenges,
    currentChallengeId,
    achievementCount,
    \* history: the signed metric payloads updateNodeMetrics has accepted
    acceptedPayloads, lastRewardClaim

tokenVars == <<balances, totalSupply, stakes, nodes, totalStaked, totalNodes, tokenThreatsDetected,
               rewardPool, paused, allowance>>
tokenExceptBalances == <<totalSupply, stakes, nodes, totalStaked, totalNodes, tokenThreatsDetected,
                         rewardPool, paused>>
oracleVars == <<chainid, dagTransactions, pendingDAGTxs, threatAlerts, activeThreatAlerts,
                crossChainAlerts, authorizedNodes, supportedChains, totalThreatsDetected,
                totalDAGTransactions, pendingRequests, requestCount, alertSubmitters>>
challengeVars == <<challenges, currentChallengeId, achievementCount>>
registryVars == <<depinNodes, ownerNodes, deviceTypeCounts, nodeRewards, allNodeIds, networkMetrics,
                  playerLevels, experiencePoints, registryPaused, challengeVars,
                  acceptedPayloads, lastRewardClaim>>
\* everything the token's own functions never touch
outsideToken == <<oracleVars, registryVars, allowance>>
vars == <<now, stepsLeft, tokenVars, oracleVars, registryVars>>

\* ------------------------------------------------------------------------
\* Arithmetic helpers
\* ------------------------------------------------------------------------
\* floor(a * b / c) as Solidity's (a * b) / c computes it, split so that the
\* intermediate product stays small: a = q*c + r gives a*b/c = q*b + r*b/c.
MulDiv(a, b, c) == (a \div c) * b + ((a % c) * b) \div c

Range(s) == { s[i] : i \in DOMAIN s }

RECURSIVE SumOver(_, _)
SumOver(f, S) ==
    IF S = {} THEN 0
    ELSE LET x == CHOOSE y \in S : TRUE IN f[x] + SumOver(f, S \ {x})

\* ------------------------------------------------------------------------
\* DAGShieldToken
\* ------------------------------------------------------------------------
EmptyStake == [amount |-> 0, timestamp |-> 0, rewards |-> 0, unstakeTime |-> 0, isActive |-> FALSE]

\* ERC20 _transfer / _mint / _burn on the balance map
Transferred(bal, from, to, amount) ==
    [bal EXCEPT ![from] = @ - amount, ![to] = bal[to] + (IF to = from THEN 0 ELSE amount)]

Minted(bal, to, amount) == [bal EXCEPT ![to] = @ + amount]

Burned(bal, from, amount) == [bal EXCEPT ![from] = @ - amount]

\* _claimStakingRewards: the reward accrued by a stake record at time `now`
PendingReward_FullYear(st) == MulDiv(st.amount, STAKING_APY, 10000)

PendingReward(st) ==
    LET timeStaked == now - st.timestamp
        annualReward == MulDiv(st.amount, STAKING_APY, 10000)
    IN  MulDiv(annualReward, timeStaked, YEAR)

\* the supply-cap test guarding every mint
WithinCap_NoCap(supply, reward) == TRUE

WithinCap(supply, reward) == supply + reward <= MAX_SUPPLY

\* _claimStakingRewards: does the settlement mint?
SettlementMints_Uncapped(user) ==
    /\ stakes[user].isActive
    /\ stakes[user].amount # 0
    /\ PendingReward(stakes[user]) > 0

SettlementMints(user) ==
    /\ stakes[user].isActive
    /\ stakes[user].amount # 0
    /\ PendingReward(stakes[user]) > 0
    /\ WithinCap(totalSupply, PendingReward(stakes[user]))

\* _claimStakingRewards: balances, supply and stake table after the call
ClaimedBalances(user) ==
    IF SettlementMints(user)
    THEN Minted(balances, user, PendingReward(stakes[user]))
    ELSE balances

ClaimedSupply(user) ==
    IF SettlementMints(user)
    THEN totalSupply + PendingReward(stakes[user])
    ELSE totalSupply

ClaimedStakes(user) ==
    IF SettlementMints(user)
    THEN [stakes EXCEPT ![user].rewards = @ + PendingReward(stakes[user]),
                        ![user].timestamp = now]
    ELSE stakes

\* every transaction uses up one unit of the run's transaction budget
Step == /\ stepsLeft > 0
        /\ stepsLeft' = stepsLeft - 1

\* stake: the two requirements on the amount
StakeAccepted_NoMinimum(user, amount) == balances[user] >= amount

StakeAccepted(user, amount) ==
    /\ amount >= MIN_STAKE_AMOUNT
    /\ balances[user] >= amount

\* unstake: the two requirements on the caller's stake record
UnstakeAccepted(user, amount) ==
    /\ stakes[user].isActive
    /\ stakes[user].amount >= amount

stake(user, amount) ==
    /\ Step
    /\ ~paused
    /\ StakeAccepted(user, amount)
    /\ LET settle == stakes[user].isActive
           bal == IF settle THEN ClaimedBalances(user) ELSE balances
           stk == IF settle THEN ClaimedStakes(user) ELSE stakes
       IN  /\ balances' = Transferred(bal, user, TokenAddr, amount)
           /\ totalSupply' = IF settle THEN ClaimedSupply(user) ELSE totalSupply
           /\ stakes' = [stk EXCEPT ![user].amount = @ + amount,
                                    ![user].timestamp = now,
                                    ![user].isActive = TRUE]
    /\ totalStaked' = totalStaked + amount
    /\ UNCHANGED <<outsideToken, now, nodes, totalNodes, tokenThreatsDetected, rewardPool, paused>>

unstake(user, amount) ==
    /\ Step
    /\ UnstakeAccepted(user, amount)
    /\ totalStaked >= amount
    /\ ClaimedBalances(user)[TokenAddr] >= amount
    /\ balances' = Transferred(ClaimedBalances(user), TokenAddr, user, amount)
    /\ totalSupply' = ClaimedSupply(user)
    /\ stakes' = [ClaimedStakes(user) EXCEPT
                      ![user].unstakeTime = now + UNSTAKE_COOLDOWN,
                      ![user].amount = @ - amount,
                      ![user].isActive = (stakes[user].amount - amount # 0)]
    /\ totalStaked' = totalStaked - amount
    /\ UNCHANGED <<outsideToken, now, nodes, totalNodes, tokenThreatsDetected, rewardPool, paused>>

deployNode(user, stakeAmount) ==
    /\ Step
    /\ ~paused
    /\ totalNodes < MaxTokenNodes
    /\ stakeAmount >= MIN_STAKE_AMOUNT
    /\ balances[user] >= stakeAmount
    /\ balances' = Transferred(balances, user, TokenAddr, stakeAmount)
    /\ nodes' = Append(nodes, [owner |-> user, stakedAmount |-> stakeAmount,
                               threatsDetected |-> 0, performance |-> 10000,
                               isActive |-> TRUE])
    /\ totalNodes' = totalNodes + 1
    /\ totalStaked' = totalStaked + stakeAmount
    /\ UNCHANGED <<outsideToken, now, totalSupply, stakes, tokenThreatsDetected, rewardPool, paused>>

\* reportThreat: the reward computed for a report
ThreatReward(node, threatCount, confidence) ==
    LET baseReward == threatCount * 10 * ONE_DAG
        performanceMultiplier == MulDiv(node.performance, confidence, 10000)
    IN  MulDiv(baseReward, performanceMultiplier, 10000)

reportThreat(nodeId, threatCount, confidence) ==
    /\ Step
    /\ nodeId \in DOMAIN nodes
    /\ nodes[nodeId].isActive
    /\ LET reward == ThreatReward(nodes[nodeId], threatCount, confidence)
       IN  IF WithinCap(totalSupply, reward)
           THEN /\ balances' = Minted(balances, nodes[nodeId].owner, reward)
                /\ totalSupply' = totalSupply + reward
           ELSE UNCHANGED <<balances, totalSupply>>
    /\ nodes' = [nodes EXCEPT ![nodeId].threatsDetected = @ + threatCount]
    /\ tokenThreatsDetected' = tokenThreatsDetected + threatCount
    /\ UNCHANGED <<outsideToken, now, stakes, totalStaked, totalNodes, rewardPool, paused>>

claimRewards(user) ==
    /\ Step
    /\ balances' = ClaimedBalances(user)
    /\ totalSupply' = ClaimedSupply(user)
    /\ stakes' = ClaimedStakes(user)
    /\ UNCHANGED <<outsideToken, now, nodes, totalStaked, totalNodes, tokenThreatsDetected, rewardPool, paused>>

\* ERC20Burnable.burn: a holder burns own spendable tokens
burn(user, amount) ==
    /\ Step
    /\ balances[user] >= amount
    /\ balances' = Burned(balances, user, amount)
    /\ totalSupply' = totalSupply - amount
    /\ UNCHANGED <<outsideToken, now, stakes, nodes, totalStaked, totalNodes, tokenThreatsDetected, rewardPool, paused>>

burnFromRewards(amount) ==
    /\ Step
    /\ rewardPool >= amount
    /\ balances[TokenAddr] >= amount
    /\ rewardPool' = rewardPool - amount
    /\ balances' = Burned(balances, TokenAddr, amount)
    /\ totalSupply' = totalSupply - amount
    /\ UNCHANGED <<outsideToken, now, stakes, nodes, totalStaked, totalNodes, tokenThreatsDetected, paused>>

\* ERC20.transfer between holders
transfer(from, to, amount) ==
    /\ Step
    /\ balances[from] >= amount
    /\ balances' = Transferred(balances, from, to, amount)
    /\ UNCHANGED <<outsideToken, now, totalSupply, stakes, nodes, totalStaked, totalNodes, tokenThreatsDetected, rewardPool, paused>>

\* ERC20.approve with the registry as spender
approve(user, amount) ==
    /\ Step
    /\ allowance' = [allowance EXCEPT ![user] = amount]
    /\ UNCHANGED <<oracleVars, registryVars, now, balances, tokenExceptBalances>>

pause ==
    /\ Step
    /\ ~paused
    /\ paused' = TRUE
    /\ UNCHANGED <<outsideToken, now, balances, totalSupply, stakes, nodes, totalStaked, totalNodes, tokenThreatsDetected, rewardPool>>

unpause ==
    /\ Step
    /\ paused
    /\ paused' = FALSE
    /\ UNCHANGED <<outsideToken, now, balances, totalSupply, stakes, nodes, totalStaked, totalNodes, tokenThreatsDetected, rewardPool>>

\* block.timestamp advances between transactions
Tick(d) ==
    /\ Step
    /\ now + d <= MaxTime * YEAR
    /\ now' = now + d
    /\ UNCHANGED <<tokenVars, oracleVars, registryVars>>

\* ------------------------------------------------------------------------
\* DAGShieldOracle
\* ------------------------------------------------------------------------
MIN_CONSENSUS == 3
\* DAG_BATCH_SIZE is 100 in the source; the model scales the batch trigger to
\* 3 queue entries so that addDAGTransaction's automatic batch run is exercised.
DAG_BATCH_SIZE == 3
\* upper end of the chain-id scan `for (chainId = 1; chainId <= 100000; ...)`
MAX_RELAY_CHAIN_ID == 100000
\* `threatLevel > 70` in _processDAGBatch
ALERT_THRESHOLD == 70
\* `1000 ether`, with one ether counted as 1
LARGE_VALUE == 1000
LARGE_DATA == 10000

OracleNodes == {"n1", "n2", "n3"}
TxHashes == {1, 2}
\* bytes32 alert ids; 0 is bytes32(0)
AlertIds == {0, 1, 2}
\* the chains of the constructor and the chain ids offered to setSupportedChain
ConstructorChains == {1, 137, 56, 43114, 250}
ChainIds == ConstructorChains \cup {MAX_RELAY_CHAIN_ID, MAX_RELAY_CHAIN_ID + 1}
LocalChains == {1}
\* keccak256(alert.id, chainId): injective, so the pair itself is the key
RelayKeys == AlertIds \X ChainIds

EmptyTx == [txHash |-> 0, value |-> 0, dataLen |-> 0, selector |-> "none", timestamp |-> 0,
            threatLevel |-> 0, isProcessed |-> FALSE, dependencies |-> {}]
EmptyAlert == [id |-> 0, confidence |-> 0, timestamp |-> 0, isVerified |-> FALSE,
               nodeConsensus |-> 0]
EmptyRelay == [sourceChainId |-> 0, targetChainId |-> 0, alertId |-> 0, timestamp |-> 0,
               isRelayed |-> FALSE]

\* keccak256(abi.encodePacked(tx.txHash, block.timestamp)) folded into the
\* non-zero alert ids of the model
AlertIdOf(txHash, ts) == 1 + ((txHash + ts) % 2)

_canProcessTransaction_NoCheck(dag, tx) == TRUE

_canProcessTransaction(dag, tx) ==
    \A d \in tx.dependencies : dag[d].isProcessed

MaliciousSelectors == {"transfer", "transferFrom", "approve"}

_analyzeThreatLevel_Heavy(tx) ==
    LET l1 == IF tx.value > LARGE_VALUE THEN 40 ELSE 0
        l2 == l1 + (IF tx.dataLen > LARGE_DATA THEN 35 ELSE 0)
        l3 == l2 + (IF tx.dataLen >= 4 /\ tx.selector \in MaliciousSelectors THEN 10 ELSE 0)
    IN  IF l3 > 100 THEN 100 ELSE l3

_analyzeThreatLevel(tx) ==
    LET l1 == IF tx.value > LARGE_VALUE THEN 20 ELSE 0
        l2 == l1 + (IF tx.dataLen > LARGE_DATA THEN 15 ELSE 0)
        l3 == l2 + (IF tx.dataLen >= 4 /\ tx.selector \in MaliciousSelectors THEN 10 ELSE 0)
    IN  IF l3 > 100 THEN 100 ELSE l3

\* The part of the oracle state a batch run works on.
BatchState == [dag |-> dagTransactions, alerts |-> threatAlerts, active |-> activeThreatAlerts,
               threats |-> totalThreatsDetected, submitters |-> alertSubmitters]

_generateThreatAlert(st, tx, threatLevel) ==
    LET alertId == AlertIdOf(tx.txHash, now)
    IN  [st EXCEPT !.alerts[alertId] = [id |-> alertId, confidence |-> threatLevel,
                                        timestamp |-> now, isVerified |-> FALSE,
                                        nodeConsensus |-> 1],
                   !.active = Append(@, alertId),
                   !.threats = @ + 1,
                   !.submitters[alertId] = {}]

\* one iteration of the loop of _processDAGBatch
ProcessOne(st, txHash) ==
    IF _canProcessTransaction(st.dag, st.dag[txHash])
    THEN LET threatLevel == _analyzeThreatLevel(st.dag[txHash])
             st1 == [st EXCEPT !.dag[txHash].threatLevel = threatLevel,
                               !.dag[txHash].isProcessed = TRUE]
         IN  IF threatLevel > ALERT_THRESHOLD
             THEN _generateThreatAlert(st1, st1.dag[txHash], threatLevel)
             ELSE st1
    ELSE st

\* the loop of _processDAGBatch over queue[i..]
RECURSIVE ProcessFrom(_, _, _)
ProcessFrom(st, queue, i) ==
    IF i > Len(queue) THEN st
    ELSE ProcessFrom(ProcessOne(st, queue[i]), queue, i + 1)

\* what _processDAGBatch leaves in the pending queue
ClearedQueue(st, queue) == <<>>

\* _processDAGBatch applied to the oracle state with the given dag and queue
_processDAGBatch(dag, queue) ==
    LET st == ProcessFrom([BatchState EXCEPT !.dag = dag], queue, 1)
    IN  /\ dagTransactions' = st.dag
        /\ threatAlerts' = st.alerts
        /\ activeThreatAlerts' = st.active
        /\ totalThreatsDetected' = st.threats
        /\ alertSubmitters' = st.submitters
        /\ pendingDAGTxs' = ClearedQueue(st, queue)

addDAGTransaction(caller, txHash, payload, dependencies) ==
    /\ Step
    /\ caller \in authorizedNodes
    /\ ~dagTransactions[txHash].isProcessed
    /\ LET dag == [dagTransactions EXCEPT ![txHash] =
                      [txHash |-> txHash, value |-> payload.value, dataLen |-> payload.dataLen,
                       selector |-> payload.selector, timestamp |-> now, threatLevel |-> 0,
                       isProcessed |-> FALSE, dependencies |-> dependencies]]
           queue == Append(pendingDAGTxs, txHash)
       IN  IF Len(queue) >= DAG_BATCH_SIZE
           THEN _processDAGBatch(dag, queue)
           ELSE /\ dagTransactions' = dag
                /\ pendingDAGTxs' = queue
                /\ UNCHANGED <<threatAlerts, activeThreatAlerts, totalThreatsDetected,
                               alertSubmitters>>
    /\ totalDAGTransactions' = totalDAGTransactions + 1
    /\ UNCHANGED <<tokenVars, registryVars, now, chainid, crossChainAlerts, authorizedNodes, supportedChains,
                   pendingRequests, requestCount>>

processDAGBatch ==
    /\ Step
    /\ _processDAGBatch(dagTransactions, pendingDAGTxs)
    /\ UNCHANGED <<tokenVars, registryVars, now, chainid, crossChainAlerts, authorizedNodes, supportedChains,
                   totalDAGTransactions, pendingRequests, requestCount>>

\* the chains _relayToCrossChains creates a record for: the loop visits the
\* ids 1..MAX_RELAY_CHAIN_ID and keeps the supported ones other than the
\* local chain.  (The Chainlink request sent per record is assumed to be
\* funded, so that sendChainlinkRequest does not revert.)
RelayTargets ==
    { c \in supportedChains : c >= 1 /\ c <= MAX_RELAY_CHAIN_ID /\ c # chainid }

\* crossChainAlerts after _relayToCrossChains(alert)
_relayToCrossChains(alertId) ==
    [k \in RelayKeys |->
        IF k[1] = alertId /\ k[2] \in RelayTargets
        THEN [sourceChainId |-> chainid, targetChainId |-> k[2], alertId |-> alertId,
              timestamp |-> now, isRelayed |-> FALSE]
        ELSE crossChainAlerts[k]]

\* nodeConsensus after a submission to an existing alert
\* (alertSubmitters is a history variable: the msg.sender values of the
\* submissions to each alert record, which the contract itself does not store)
NextConsensus(alert) == alert.nodeConsensus + 1

submitThreatAlert(caller, alertId, confidence) ==
    /\ Step
    /\ caller \in authorizedNodes
    /\ alertSubmitters' = [alertSubmitters EXCEPT ![alertId] = @ \cup {caller}]
    /\ IF threatAlerts[alertId].id = 0
       THEN /\ threatAlerts' = [threatAlerts EXCEPT ![alertId].id = alertId,
                                                    ![alertId].confidence = confidence,
                                                    ![alertId].timestamp = now,
                                                    ![alertId].nodeConsensus = 1]
            /\ activeThreatAlerts' = Append(activeThreatAlerts, alertId)
            /\ totalThreatsDetected' = totalThreatsDetected + 1
            /\ UNCHANGED <<crossChainAlerts, pendingRequests, requestCount>>
       ELSE LET count == NextConsensus(threatAlerts[alertId])
                verify == count >= MIN_CONSENSUS /\ ~threatAlerts[alertId].isVerified
            IN  /\ threatAlerts' = [threatAlerts EXCEPT
                                       ![alertId].nodeConsensus = count,
                                       ![alertId].isVerified = @ \/ verify]
                /\ IF verify
                   THEN /\ crossChainAlerts' = _relayToCrossChains(alertId)
                        /\ requestCount' = requestCount + Cardinality(RelayTargets)
                        /\ pendingRequests' = pendingRequests \cup
                               (requestCount .. (requestCount + Cardinality(RelayTargets) - 1))
                   ELSE UNCHANGED <<crossChainAlerts, pendingRequests, requestCount>>
                /\ UNCHANGED <<activeThreatAlerts, totalThreatsDetected>>
    /\ UNCHANGED <<tokenVars, registryVars, now, chainid, dagTransactions, pendingDAGTxs, authorizedNodes,
                   supportedChains, totalDAGTransactions>>

\* recordChainlinkFulfillment(requestId) admits only an outstanding request;
\* request ids are the ChainlinkClient nonces, crossChainId is whatever the
\* Chainlink node passes back
fulfillCrossChainRelay(requestId, crossChainId) ==
    /\ Step
    /\ requestId \in pendingRequests
    /\ pendingRequests' = pendingRequests \ {requestId}
    /\ crossChainAlerts' = [crossChainAlerts EXCEPT ![crossChainId].isRelayed = TRUE]
    /\ UNCHANGED <<tokenVars, registryVars, now, chainid, dagTransactions, pendingDAGTxs, threatAlerts,
                   activeThreatAlerts, authorizedNodes, supportedChains, totalThreatsDetected,
                   totalDAGTransactions, requestCount, alertSubmitters>>

setNodeAuthorization(node, authorized) ==
    /\ Step
    /\ authorizedNodes' = IF authorized THEN authorizedNodes \cup {node}
                          ELSE authorizedNodes \ {node}
    /\ UNCHANGED <<tokenVars, registryVars, now, chainid, dagTransactions, pendingDAGTxs, threatAlerts,
                   activeThreatAlerts, crossChainAlerts, supportedChains, totalThreatsDetected,
                   totalDAGTransactions, pendingRequests, requestCount, alertSubmitters>>

setSupportedChain(chainId, supported) ==
    /\ Step
    /\ supportedChains' = IF supported THEN supportedChains \cup {chainId}
                          ELSE supportedChains \ {chainId}
    /\ UNCHANGED <<tokenVars, registryVars, now, chainid, dagTransactions, pendingDAGTxs, threatAlerts,
                   activeThreatAlerts, crossChainAlerts, authorizedNodes, totalThreatsDetected,
                   totalDAGTransactions, pendingRequests, requestCount, alertSubmitters>>

\* ------------------------------------------------------------------------
\* DePINNodeRegistry
\* ------------------------------------------------------------------------
MIN_STAKE == 1000 * ONE_DAG
MAX_NODES_PER_OWNER == 10
REPUTATION_DECAY_RATE == 100
ENERGY_EFFICIENCY_THRESHOLD == 8000
BASE_REWARD_RATE == 100
REPUTATION_MULTIPLIER == 50
ENERGY_BONUS_RATE == 25
UPTIME_BONUS_RATE == 30
MAX_REPUTATION == 10000

NodeIds == {"node-a", "node-b"}
DeviceTypes == {"Mobile"}

EmptyNode == [owner |-> NoAddr, deviceType |-> "Mobile", stakeAmount |-> 0,
              reputationScore |-> 0, energyEfficiency |-> 0, status |-> "Inactive",
              registrationTime |-> 0, lastActiveTime |-> 0, totalRewards |-> 0,
              threatsDetected |-> 0, uptime |-> 0, isVerified |-> FALSE]

\* registerNode: the "Node already registered" requirement
NotYetRegistered_Unchecked(nodeId) == TRUE

NotYetRegistered(nodeId) == depinNodes[nodeId].owner = NoAddr

registerNode(sender, nodeId, deviceType, stakeAmount) ==
    /\ Step
    /\ ~registryPaused
    /\ nodeId # ""
    /\ stakeAmount >= MIN_STAKE
    /\ Len(ownerNodes[sender]) < MAX_NODES_PER_OWNER
    /\ NotYetRegistered(nodeId)
    \* dagToken.transferFrom(msg.sender, address(this), stakeAmount)
    /\ allowance[sender] >= stakeAmount
    /\ balances[sender] >= stakeAmount
    /\ allowance' = [allowance EXCEPT ![sender] = @ - stakeAmount]
    /\ balances' = Transferred(balances, sender, RegistryAddr, stakeAmount)
    /\ depinNodes' = [depinNodes EXCEPT ![nodeId] =
                         [@ EXCEPT !.owner = sender,
                                   !.deviceType = deviceType,
                                   !.stakeAmount = stakeAmount,
                                   !.reputationScore = 5000,
                                   !.energyEfficiency = 7000,
                                   !.status = "Active",
                                   !.registrationTime = now,
                                   !.lastActiveTime = now,
                                   !.isVerified = FALSE]]
    /\ ownerNodes' = [ownerNodes EXCEPT ![sender] = Append(@, nodeId)]
    /\ allNodeIds' = Append(allNodeIds, nodeId)
    /\ deviceTypeCounts' = [deviceTypeCounts EXCEPT ![deviceType] = @ + 1]
    /\ networkMetrics' = [networkMetrics EXCEPT !.totalNodes = @ + 1,
                                                !.activeNodes = @ + 1,
                                                !.totalStaked = @ + stakeAmount]
    /\ IF Len(ownerNodes[sender]) + 1 = 1
       THEN /\ playerLevels' = [playerLevels EXCEPT ![sender] = 1]
            /\ experiencePoints' = [experiencePoints EXCEPT ![sender] = 0]
       ELSE UNCHANGED <<playerLevels, experiencePoints>>
    /\ UNCHANGED <<oracleVars, now, tokenExceptBalances, nodeRewards, registryPaused, challengeVars,
                   acceptedPayloads, lastRewardClaim>>

\* the final clamp of _updateReputation
CapReputation_NoCap(newReputation) == newReputation

CapReputation(newReputation) ==
    IF newReputation > MAX_REPUTATION THEN MAX_REPUTATION ELSE newReputation

\* _updateReputation: the score written for `node`, whose lastActiveTime the
\* caller has already advanced
_updateReputation(node, newThreats, uptime, energyEfficiency) ==
    LET r1 == node.reputationScore + (IF newThreats > 0 THEN newThreats * 10 ELSE 0)
        r2 == r1 + (IF uptime > DAY THEN 50 ELSE 0)
        r3 == r2 + (IF energyEfficiency > ENERGY_EFFICIENCY_THRESHOLD THEN 25 ELSE 0)
        daysSinceLastUpdate == (now - node.lastActiveTime) \div DAY
        decay == MulDiv(r3 * REPUTATION_DECAY_RATE, daysSinceLastUpdate, 10000)
        r4 == IF daysSinceLastUpdate > 0
              THEN (IF r3 > decay THEN r3 - decay ELSE 0)
              ELSE r3
    IN  CapReputation(r4)

\* _calculateRewards: the base reward of `node`, in DAG
baseReward_Nothing(node) == 0

baseReward(node) == MulDiv(node.stakeAmount, BASE_REWARD_RATE, 10000)

\* _calculateRewards: the reputation term of `node`.  The source adds this
\* number to the reward as it is, so it is a number of base units
\* (10**-18 DAG), at most REPUTATION_MULTIPLIER of them.
reputationMultiplier(node) == (node.reputationScore * REPUTATION_MULTIPLIER) \div 10000

\* One DAG is 10**18 base units, more than TLC's integers hold; the divisor
\* used here is the largest power of ten they do hold.  Every number of base
\* units computed in this module is far below it, so the quotient is the
\* same as with 10**18.
BASE_UNITS_PER_DAG == 1000000000

\* the whole DAG contained in a number of base units
WholeDAG(baseUnits) == baseUnits \div BASE_UNITS_PER_DAG

\* _calculateRewards for `node` as stored after the metric and reputation update
_calculateRewards(node, newThreats, uptime, energyEfficiency) ==
    LET energyBonus == IF energyEfficiency > ENERGY_EFFICIENCY_THRESHOLD
                       THEN (baseReward(node) * ENERGY_BONUS_RATE) \div 10000 ELSE 0
        uptimeBonus == IF uptime > DAY
                       THEN (baseReward(node) * UPTIME_BONUS_RATE) \div 10000 ELSE 0
        threatBonus == newThreats * 100 * ONE_DAG
    IN  baseReward(node) + WholeDAG(reputationMultiplier(node)) + energyBonus + uptimeBonus
        + threatBonus

\* _checkLevelUp: does `player` with experience xp level up?
LevelsUp(level, xp) == xp >= level * 1000

\* _updateNetworkMetrics over the node table `table`
_updateNetworkMetrics(metrics, table) ==
    LET active == { i \in DOMAIN allNodeIds : table[allNodeIds[i]].status = "Active" }
        activeCount == Cardinality(active)
        totalReputation == SumOver([i \in active |-> table[allNodeIds[i]].reputationScore], active)
        totalUptime == SumOver([i \in active |-> table[allNodeIds[i]].uptime], active)
    IN  [metrics EXCEPT
            !.avgReputationScore = IF activeCount > 0 THEN totalReputation \div activeCount ELSE @,
            !.networkUptime = IF activeCount > 0 THEN totalUptime \div activeCount ELSE @,
            !.activeNodes = activeCount]

\* the value updateNodeMetrics stores as the node's energy efficiency
StoredEfficiency(energyEfficiency) == energyEfficiency

\* updateNodeMetrics: the "Node not active" requirement
NodeIsActive_AnyStatus(node) == TRUE

NodeIsActive(node) == node.status = "Active"

\* updateNodeMetrics: newThreats = threatsDetected - oldThreats must not
\* underflow
ThreatCountAccepted_Any(node, threatsDetected) == TRUE

ThreatCountAccepted(node, threatsDetected) == threatsDetected >= node.threatsDetected

updateNodeMetrics(nodeId, threatsDetected, uptime, energyEfficiency, signer) ==
    /\ Step
    /\ depinNodes[nodeId].owner # NoAddr
    /\ NodeIsActive(depinNodes[nodeId])
    /\ signer = depinNodes[nodeId].owner
    /\ ThreatCountAccepted(depinNodes[nodeId], threatsDetected)
    /\ LET node == depinNodes[nodeId]
           owner == node.owner
           newThreats == threatsDetected - node.threatsDetected
           node1 == [node EXCEPT !.threatsDetected = threatsDetected,
                                 !.uptime = @ + uptime,
                                 !.energyEfficiency = StoredEfficiency(energyEfficiency),
                                 !.lastActiveTime = now]
           node2 == [node1 EXCEPT !.reputationScore =
                        _updateReputation(node1, newThreats, uptime, energyEfficiency)]
           reward == _calculateRewards(node2, newThreats, uptime, energyEfficiency)
           node3 == IF reward > 0 THEN [node2 EXCEPT !.totalRewards = @ + reward] ELSE node2
           xp == experiencePoints[owner] + (reward \div ONE_DAG)
           levelUp == reward > 0 /\ LevelsUp(playerLevels[owner], xp)
           table == [depinNodes EXCEPT ![nodeId] = node3]
       IN  /\ depinNodes' = table
           /\ nodeRewards' = [nodeRewards EXCEPT ![owner] =
                  @ + reward + (IF levelUp THEN playerLevels[owner] * 100 * ONE_DAG ELSE 0)]
           /\ experiencePoints' = [experiencePoints EXCEPT ![owner] = xp]
           /\ playerLevels' = [playerLevels EXCEPT ![owner] = IF levelUp THEN @ + 1 ELSE @]
           /\ networkMetrics' = _updateNetworkMetrics(
                  [networkMetrics EXCEPT !.totalRewards = @ + reward,
                                         !.totalThreatsDetected = @ + newThreats],
                  table)
    /\ acceptedPayloads' = acceptedPayloads \cup
           {[nodeId |-> nodeId, threatsDetected |-> threatsDetected, uptime |-> uptime,
             energyEfficiency |-> energyEfficiency, signer |-> signer]}
    /\ UNCHANGED <<oracleVars, now, tokenVars, ownerNodes, deviceTypeCounts, allNodeIds,
                   registryPaused, challengeVars, lastRewardClaim>>

slashNode(nodeId, slashAmount) ==
    /\ Step
    /\ depinNodes[nodeId].owner # NoAddr
    /\ slashAmount <= depinNodes[nodeId].stakeAmount
    /\ networkMetrics.activeNodes >= 1
    /\ networkMetrics.totalStaked >= slashAmount
    /\ depinNodes' = [depinNodes EXCEPT ![nodeId].stakeAmount = @ - slashAmount,
                                        ![nodeId].status = "Slashed",
                                        ![nodeId].reputationScore = @ \div 2]
    /\ networkMetrics' = [networkMetrics EXCEPT !.activeNodes = @ - 1,
                                                !.totalStaked = @ - slashAmount]
    /\ UNCHANGED <<oracleVars, now, tokenVars, ownerNodes, deviceTypeCounts, nodeRewards,
                   allNodeIds, playerLevels, experiencePoints, registryPaused, challengeVars,
                   acceptedPayloads, lastRewardClaim>>

\* claimRewards of the registry: the accumulated reward is paid by
\* dagToken.transfer out of the registry's own token balance
Registry_claimRewards(sender) ==
    /\ Step
    /\ nodeRewards[sender] > 0
    /\ balances[RegistryAddr] >= nodeRewards[sender]
    /\ nodeRewards' = [nodeRewards EXCEPT ![sender] = 0]
    /\ lastRewardClaim' = [lastRewardClaim EXCEPT ![sender] = now]
    /\ balances' = Transferred(balances, RegistryAddr, sender, nodeRewards[sender])
    /\ UNCHANGED <<oracleVars, now, tokenExceptBalances, allowance, depinNodes, ownerNodes,
                   deviceTypeCounts, allNodeIds, networkMetrics, playerLevels,
                   experiencePoints, registryPaused, challengeVars, acceptedPayloads>>

\* ------------------------------------------------------------------------
\* DePINNodeRegistry: challenges
\* ------------------------------------------------------------------------
WINNER_XP == 1000

ChallengeIds == 1..MaxChallenges

\* a challenges[] slot that createChallenge has not written yet
EmptyChallenge == [startTime |-> 0, endTime |-> 0, rewardPool |-> 0, minParticipants |-> 0,
                   participants |-> {}, scores |-> [u \in Users |-> 0],
                   leaderboard |-> <<>>, isActive |-> FALSE]

createChallenge(duration, pool, minParticipants) ==
    /\ Step
    /\ pool > 0
    /\ duration > 0
    /\ currentChallengeId <= MaxChallenges
    /\ challenges' = [challenges EXCEPT ![currentChallengeId] =
                          [@ EXCEPT !.startTime = now,
                                    !.endTime = now + duration,
                                    !.rewardPool = pool,
                                    !.minParticipants = minParticipants,
                                    !.isActive = TRUE]]
    /\ currentChallengeId' = currentChallengeId + 1
    /\ UNCHANGED <<oracleVars, now, tokenVars, depinNodes, ownerNodes, deviceTypeCounts,
                   nodeRewards, allNodeIds, networkMetrics, playerLevels, experiencePoints,
                   registryPaused, achievementCount, acceptedPayloads, lastRewardClaim>>

participateInChallenge(sender, challengeId) ==
    /\ Step
    /\ challenges[challengeId].isActive
    /\ now < challenges[challengeId].endTime
    /\ sender \notin challenges[challengeId].participants
    /\ Len(ownerNodes[sender]) > 0
    /\ challenges' = [challenges EXCEPT ![challengeId].participants = @ \cup {sender},
                                        ![challengeId].leaderboard = Append(@, sender)]
    /\ UNCHANGED <<oracleVars, now, tokenVars, depinNodes, ownerNodes, deviceTypeCounts,
                   nodeRewards, allNodeIds, networkMetrics, playerLevels, experiencePoints,
                   registryPaused, currentChallengeId, achievementCount, acceptedPayloads, lastRewardClaim>>

\* updateChallengeScore: the "Challenge not active" requirement
ScoreOpen_Always(challenge) == TRUE

ScoreOpen(challenge) == challenge.isActive

updateChallengeScore(challengeId, participant, score) ==
    /\ Step
    /\ ScoreOpen(challenges[challengeId])
    /\ participant \in challenges[challengeId].participants
    /\ challenges' = [challenges EXCEPT ![challengeId].scores[participant] = score]
    /\ UNCHANGED <<oracleVars, now, tokenVars, depinNodes, ownerNodes, deviceTypeCounts,
                   nodeRewards, allNodeIds, networkMetrics, playerLevels, experiencePoints,
                   registryPaused, currentChallengeId, achievementCount, acceptedPayloads, lastRewardClaim>>

\* completeChallenge: the winner loop over leaderboard[i..], with the highest
\* score and the winner found so far
RECURSIVE FindWinner(_, _, _, _)
FindWinner(challenge, i, highestScore, winner) ==
    IF i > Len(challenge.leaderboard) THEN winner
    ELSE LET participant == challenge.leaderboard[i]
             score == challenge.scores[participant]
         IN  IF score > highestScore
             THEN FindWinner(challenge, i + 1, score, participant)
             ELSE FindWinner(challenge, i + 1, highestScore, winner)

\* completeChallenge: is the reward pool distributed?
PaysOut_NoQuorum(challenge, winner) == winner # NoAddr

PaysOut(challenge, winner) ==
    /\ winner # NoAddr
    /\ Len(challenge.leaderboard) >= challenge.minParticipants

completeChallenge(challengeId) ==
    /\ Step
    /\ challenges[challengeId].isActive
    /\ now >= challenges[challengeId].endTime
    /\ challenges' = [challenges EXCEPT ![challengeId].isActive = FALSE]
    /\ LET challenge == challenges[challengeId]
           winner == FindWinner(challenge, 1, 0, NoAddr)
       IN  IF PaysOut(challenge, winner)
           THEN /\ nodeRewards' = [nodeRewards EXCEPT ![winner] = @ + challenge.rewardPool]
                /\ achievementCount' = [achievementCount EXCEPT ![winner] = @ + 1]
                /\ experiencePoints' = [experiencePoints EXCEPT ![winner] = @ + WINNER_XP]
           ELSE UNCHANGED <<nodeRewards, achievementCount, experiencePoints>>
    /\ UNCHANGED <<oracleVars, now, tokenVars, depinNodes, ownerNodes, deviceTypeCounts,
                   allNodeIds, networkMetrics, playerLevels, registryPaused, currentChallengeId,
                   acceptedPayloads, lastRewardClaim>>

\* ------------------------------------------------------------------------
\* Inputs
\* ------------------------------------------------------------------------
StakeAmounts(user) == {MIN_STAKE_AMOUNT - 1, MIN_STAKE_AMOUNT, MIN_STAKE_AMOUNT + 1,
                       balances[user], balances[user] + 1}
UnstakeAmounts(user) == {MIN_STAKE_AMOUNT, stakes[user].amount, stakes[user].amount + 1}
ThreatCounts == {1, 90000000, 90000001}
Confidences == {10000}
BurnAmounts == {MIN_STAKE_AMOUNT, INITIAL_SUPPLY \div 10}
TickDays == {100 * DAY, YEAR}

TokenInit ==
    /\ balances = [a \in Addrs |-> IF a = Deployer THEN INITIAL_SUPPLY ELSE 0]
    /\ totalSupply = INITIAL_SUPPLY
    /\ stakes = [u \in Users |-> EmptyStake]
    /\ nodes = <<>>
    /\ totalStaked = 0
    /\ totalNodes = 0
    /\ tokenThreatsDetected = 0
    /\ rewardPool = INITIAL_SUPPLY \div 10
    /\ paused = FALSE
    /\ allowance = [u \in Users |-> 0]

\* the payloads offered to addDAGTransaction: a benign one and the one that
\* triggers every heuristic
Payloads == { [value |-> 0, dataLen |-> 0, selector |-> "none"],
              [value |-> LARGE_VALUE + 1, dataLen |-> LARGE_DATA + 1, selector |-> "transfer"] }
MaxDeps == 1
DependencyLists == { D \in SUBSET TxHashes : Cardinality(D) <= MaxDeps }
ToggledChains == {56, MAX_RELAY_CHAIN_ID + 1}

OracleInit ==
    /\ chainid \in LocalChains
    /\ dagTransactions = [h \in TxHashes |-> EmptyTx]
    /\ pendingDAGTxs = <<>>
    /\ threatAlerts = [a \in AlertIds |-> EmptyAlert]
    /\ activeThreatAlerts = <<>>
    /\ crossChainAlerts = [k \in RelayKeys |-> EmptyRelay]
    /\ authorizedNodes = {}
    /\ supportedChains = ConstructorChains
    /\ totalThreatsDetected = 0
    /\ totalDAGTransactions = 0
    /\ pendingRequests = {}
    /\ requestCount = 1
    /\ alertSubmitters = [a \in AlertIds |-> {}]

ThreatsReported == {0, 5, 1000}
Uptimes == {DAY, 2 * DAY}
Efficiencies == {5000, 9000, 20000}
SlashAmounts(nodeId) == {MIN_STAKE \div 2, depinNodes[nodeId].stakeAmount}
RegisterStakes == {MIN_STAKE, 2 * MIN_STAKE}

RegistryInit ==
    /\ depinNodes = [n \in NodeIds |-> EmptyNode]
    /\ ownerNodes = [u \in Users |-> <<>>]
    /\ deviceTypeCounts = [t \in DeviceTypes |-> 0]
    /\ nodeRewards = [u \in Users |-> 0]
    /\ allNodeIds = <<>>
    /\ networkMetrics = [totalNodes |-> 0, activeNodes |-> 0, totalStaked |-> 0,
                         totalRewards |-> 0, avgReputationScore |-> 0,
                         totalThreatsDetected |-> 0, networkUptime |-> 0]
    /\ playerLevels = [u \in Users |-> 0]
    /\ experiencePoints = [u \in Users |-> 0]
    /\ registryPaused = FALSE
    /\ challenges = [c \in ChallengeIds |-> EmptyChallenge]
    /\ currentChallengeId = 1
    /\ achievementCount = [u \in Users |-> 0]
    /\ acceptedPayloads = {}
    /\ lastRewardClaim = [u \in Users |-> 0]

\* the three contracts right after deployment
Deployed ==
    /\ now = 0
    /\ TokenInit
    /\ OracleInit
    /\ RegistryInit

Init == Deployed /\ stepsLeft = MaxTokenSteps

NextToken ==
    \/ \E u \in Users : \E a \in StakeAmounts(u) : stake(u, a)
    \/ \E u \in Users : \E a \in UnstakeAmounts(u) : unstake(u, a)
    \/ \E u \in Users : deployNode(u, MIN_STAKE_AMOUNT)
    \/ \E n \in 1..MaxTokenNodes : \E c \in ThreatCounts : \E k \in Confidences : reportThreat(n, c, k)
    \/ \E u \in Users : claimRewards(u)
    \/ \E u \in Users : burn(u, MIN_STAKE_AMOUNT)
    \/ \E a \in BurnAmounts : burnFromRewards(a)
    \/ \E u \in Users : \E v \in Addrs \ {u, RegistryAddr} : transfer(u, v, MIN_STAKE_AMOUNT)
    \/ pause
    \/ unpause
    \/ \E d \in TickDays : Tick(d)

SpecToken == Init /\ [][NextToken]_vars

NextOracle ==
    \/ \E n \in OracleNodes : \E h \in TxHashes : \E p \in Payloads : \E D \in DependencyLists :
           addDAGTransaction(n, h, p, D)
    \/ processDAGBatch
    \/ \E n \in OracleNodes : \E a \in AlertIds : submitThreatAlert(n, a, 80)
    \/ \E r \in pendingRequests : \E k \in RelayKeys : fulfillCrossChainRelay(r, k)
    \/ \E n \in OracleNodes : \E b \in BOOLEAN : setNodeAuthorization(n, b)
    \/ \E c \in ToggledChains : \E b \in BOOLEAN : setSupportedChain(c, b)
    \/ \E d \in {YEAR} : Tick(d)

InitOracle == Deployed /\ stepsLeft = MaxOracleSteps

SpecOracle == InitOracle /\ [][NextOracle]_vars

NextRegistry ==
    \/ \E u \in Users : \E n \in NodeIds : \E t \in DeviceTypes : \E a \in RegisterStakes :
           registerNode(u, n, t, a)
    \/ \E n \in NodeIds : \E t \in ThreatsReported : \E up \in Uptimes :
         \E e \in Efficiencies : \E signer \in Users :
           updateNodeMetrics(n, t, up, e, signer)
    \/ \E n \in NodeIds : \E a \in SlashAmounts(n) : slashNode(n, a)
    \/ \E u \in Users : approve(u, 2 * MIN_STAKE)
    \/ \E u \in Users : \E v \in Users \ {u} : transfer(u, v, 2 * MIN_STAKE)
    \/ \E u \in Users : stake(u, MIN_STAKE_AMOUNT)
    \/ \E d \in {DAY} : Tick(d)

InitRegistry == Deployed /\ stepsLeft = MaxRegistrySteps

SpecRegistry == InitRegistry /\ [][NextRegistry]_vars

\* the token's issuance next to the registry's reward ledger: the supply is
\* driven to the cap by threat-report mints while nodes earn registry rewards
NextIssuance ==
    \/ deployNode(Deployer, MIN_STAKE_AMOUNT)
    \/ \E n \in 1..MaxTokenNodes : \E c \in ThreatCounts : \E k \in Confidences : reportThreat(n, c, k)
    \/ \E u \in Users : approve(u, 2 * MIN_STAKE)
    \/ \E u \in Users : \E n \in NodeIds : \E t \in DeviceTypes :
           registerNode(u, n, t, MIN_STAKE)
    \/ \E n \in NodeIds : \E t \in ThreatsReported : \E up \in Uptimes :
         \E e \in Efficiencies : \E signer \in Users :
           updateNodeMetrics(n, t, up, e, signer)

InitIssuance == Deployed /\ stepsLeft = MaxIssuanceSteps

SpecIssuance == InitIssuance /\ [][NextIssuance]_vars

\* registration, metric updates and reward claims against the registry's
\* token balance
NextCollateral ==
    \/ \E u \in Users : approve(u, 2 * MIN_STAKE)
    \/ \E u \in Users : \E n \in NodeIds : \E t \in DeviceTypes : \E a \in RegisterStakes :
           registerNode(u, n, t, a)
    \/ \E n \in NodeIds : \E t \in ThreatsReported : \E up \in Uptimes :
         \E e \in Efficiencies : \E signer \in Users :
           updateNodeMetrics(n, t, up, e, signer)
    \/ \E u \in Users : Registry_claimRewards(u)

InitCollateral == Deployed /\ stepsLeft = MaxCollateralSteps

SpecCollateral == InitCollateral /\ [][NextCollateral]_vars

Durations == {DAY}
ChallengePools == {500 * ONE_DAG}
MinParticipantChoices == {1, 5}
Scores == {0, 10, 20}

NextChallenge ==
    \/ \E u \in Users : approve(u, MIN_STAKE)
    \/ \E v \in Users \ {Deployer} : transfer(Deployer, v, MIN_STAKE)
    \/ \E u \in Users : \E n \in NodeIds : \E t \in DeviceTypes :
           registerNode(u, n, t, MIN_STAKE)
    \/ \E d \in Durations : \E p \in ChallengePools : \E m \in MinParticipantChoices :
           createChallenge(d, p, m)
    \/ \E u \in Users : \E c \in ChallengeIds : participateInChallenge(u, c)
    \/ \E c \in ChallengeIds : \E u \in Users : \E sc \in Scores :
           updateChallengeScore(c, u, sc)
    \/ \E c \in ChallengeIds : completeChallenge(c)
    \/ \E d \in {DAY} : now + d <= MaxChallengeDays * DAY /\ Tick(d)

InitChallenge == Deployed /\ stepsLeft = MaxChallengeSteps

SpecChallenge == InitChallenge /\ [][NextChallenge]_vars

\* ------------------------------------------------------------------------
\* Properties
\* ------------------------------------------------------------------------
TotalStakes == SumOver([u \in Users |-> stakes[u].amount], Users)

\* C1: in every reachable state the total supply is at most MAX_SUPPLY
\* (every mint path mints only under the cap).
C1_SupplyWithinCap == totalSupply <= MAX_SUPPLY

\* the cap has been reached by a threat-report mint and a staking reward is
\* pending that a settlement has to refuse
C1_Witness ==
    /\ totalSupply = MAX_SUPPLY
    /\ \E u \in Users : stakes[u].isActive /\ PendingReward(stakes[u]) > 0

\* C2: in every reachable state the sum of all recorded stake amounts is at
\* most the total supply.
C2_StakesWithinSupply == TotalStakes <= totalSupply

\* C3: an alert is verified only after at least MIN_CONSENSUS different
\* authorized identities have submitted its id.
C3_VerifiedByDistinctNodes ==
    \A a \in AlertIds :
        threatAlerts[a].isVerified => Cardinality(alertSubmitters[a]) >= MIN_CONSENSUS

\* the relay records of alert a
RelaysOf(relays, a) == [c \in ChainIds |-> relays[<<a, c>>]]

\* C4: in the transition in which an alert's confirmation count first reaches
\* MIN_CONSENSUS the alert becomes verified and exactly one undelivered relay
\* record is created for every supported chain other than the local one,
\* whatever its id; a later submission to the alert leaves its relay records
\* alone.
C4_RelayEverySupportedChain ==
    [][\A a \in AlertIds :
          /\ (threatAlerts[a].nodeConsensus < MIN_CONSENSUS
                /\ threatAlerts'[a].nodeConsensus >= MIN_CONSENSUS)
             => /\ threatAlerts'[a].isVerified
                /\ \A c \in ChainIds :
                      IF c \in supportedChains /\ c # chainid
                      THEN crossChainAlerts'[<<a, c>>] =
                               [sourceChainId |-> chainid, targetChainId |-> c, alertId |-> a,
                                timestamp |-> now, isRelayed |-> FALSE]
                      ELSE crossChainAlerts'[<<a, c>>] = crossChainAlerts[<<a, c>>]
          /\ (threatAlerts[a].isVerified
                /\ threatAlerts'[a].nodeConsensus # threatAlerts[a].nodeConsensus)
             => RelaysOf(crossChainAlerts', a) = RelaysOf(crossChainAlerts, a)
      ]_vars

\* C5: for every alert id the confirming-node count never decreases from one
\* state to the next, and the verified flag, once true, stays true.
C5_AlertMonotone ==
    [][\A a \in AlertIds :
          /\ threatAlerts'[a].nodeConsensus >= threatAlerts[a].nodeConsensus
          /\ threatAlerts[a].isVerified => threatAlerts'[a].isVerified
      ]_vars

\* an alert has been verified and has received a further submission
C5_Witness ==
    \E a \in AlertIds :
        threatAlerts[a].isVerified /\ threatAlerts[a].nodeConsensus > MIN_CONSENSUS

ProcessedSet(dag) == { h \in TxHashes : dag[h].isProcessed }

\* the vertices of `target` that can be processed one after the other starting
\* from the processed set S, each with all its dependencies processed before it
RECURSIVE GroundedFrom(_, _, _, _)
GroundedFrom(S, target, dag, n) ==
    IF n = 0 THEN S
    ELSE GroundedFrom(S \cup { t \in target : dag[t].dependencies \subseteq S }, target, dag, n - 1)

\* C6: a vertex becomes processed only when every hash of its dependency list
\* is a vertex already processed at the moment of the check; a processed
\* vertex therefore never has a never-submitted, self-referencing or cyclic
\* dependency.
C6_ProcessedOnlyWhenResolved ==
    /\ [](\A h \in ProcessedSet(dagTransactions) :
             \A d \in dagTransactions[h].dependencies :
                 d # h /\ dagTransactions[d].txHash # 0 /\ dagTransactions[d].isProcessed)
    /\ [][ProcessedSet(dagTransactions') \subseteq
             GroundedFrom(ProcessedSet(dagTransactions), ProcessedSet(dagTransactions'),
                          dagTransactions', Cardinality(TxHashes))
       ]_vars

\* a vertex with a dependency has been processed, after that dependency
C6_Witness ==
    \E h \in TxHashes :
        dagTransactions[h].isProcessed /\ dagTransactions[h].dependencies # {}

\* C7: a vertex that a batch run leaves unprocessed stays in the pending queue,
\* so that a later run can process it without a new submission.
C7_UnprocessedStayPending ==
    [][\A h \in Range(pendingDAGTxs) :
          ~dagTransactions'[h].isProcessed => h \in Range(pendingDAGTxs')
      ]_vars
Registered == { n \in NodeIds : depinNodes[n].owner # NoAddr }

\* C8: after any sequence of registerNode, updateNodeMetrics and slashNode
\* calls every registered node's reputation score lies in [0, 10000].
C8_ReputationInRange ==
    \A n \in Registered :
        depinNodes[n].reputationScore >= 0 /\ depinNodes[n].reputationScore <= MAX_REPUTATION

\* a metric update whose bonuses exceed the maximum has been capped
C8_Witness ==
    \E n \in Registered :
        /\ depinNodes[n].threatsDetected >= 1000
        /\ depinNodes[n].reputationScore = MAX_REPUTATION

\* C9: every registered node's energy-efficiency score lies in [0, 10000],
\* whatever efficiency value a metrics submission carries.
C9_EfficiencyInRange ==
    \A n \in Registered :
        depinNodes[n].energyEfficiency >= 0 /\ depinNodes[n].energyEfficiency <= 10000

\* C10: each registered node's bound stake is at most the stake amount the
\* token's stake ledger records for the node's owner.
C10_BoundStakeInStakeLedger ==
    \A n \in Registered :
        depinNodes[n].stakeAmount <= stakes[depinNodes[n].owner].amount

\* how often x occurs in the list s
Occurrences(s, x) == Cardinality({ i \in DOMAIN s : s[i] = x })

\* C11: no call changes what registerNode wrote for an id that is already
\* registered: the record's owner, device type and registration time, the
\* id's entries in the node-id list and in every owner's list all stay as
\* they are, and the node count, the device-type counts and the registry's
\* token balance grow only in a step that registers an id not registered
\* before.
C11_DuplicateRegistrationRejected ==
    [][/\ \A n \in Registered :
             /\ depinNodes'[n].owner = depinNodes[n].owner
             /\ depinNodes'[n].deviceType = depinNodes[n].deviceType
             /\ depinNodes'[n].registrationTime = depinNodes[n].registrationTime
             /\ Occurrences(allNodeIds', n) = Occurrences(allNodeIds, n)
             /\ \A u \in Users : Occurrences(ownerNodes'[u], n) = Occurrences(ownerNodes[u], n)
       /\ (\/ networkMetrics'.totalNodes # networkMetrics.totalNodes
           \/ deviceTypeCounts' # deviceTypeCounts
           \/ balances'[RegistryAddr] > balances[RegistryAddr]
           \/ allNodeIds' # allNodeIds)
          => \E n \in NodeIds \ Registered :
                 /\ depinNodes'[n].owner # NoAddr
                 /\ allNodeIds' = Append(allNodeIds, n)
                 /\ networkMetrics'.totalNodes = networkMetrics.totalNodes + 1
      ]_vars

\* an id is registered while a caller still meets every other requirement of
\* registerNode (allowance, balance, node limit, registry not paused)
C11_Witness ==
    \E n \in Registered : \E u \in Users :
        /\ ~registryPaused
        /\ allowance[u] >= MIN_STAKE
        /\ balances[u] >= MIN_STAKE
        /\ Len(ownerNodes[u]) < MAX_NODES_PER_OWNER


\* C12: a node whose status is Slashed keeps that status in every later
\* state, and no later step is a metric update of it: its uptime, threat
\* count, efficiency, last-active time and cumulative rewards stay as they
\* are, its reputation is never raised (only a further slash halves it), and
\* a reward balance changes only in a metric update of a node that is Active.
C12_SlashedIsTerminal ==
    [][/\ \A n \in NodeIds :
             depinNodes[n].status = "Slashed"
             => /\ depinNodes'[n].status = "Slashed"
                /\ depinNodes'[n].uptime = depinNodes[n].uptime
                /\ depinNodes'[n].threatsDetected = depinNodes[n].threatsDetected
                /\ depinNodes'[n].energyEfficiency = depinNodes[n].energyEfficiency
                /\ depinNodes'[n].lastActiveTime = depinNodes[n].lastActiveTime
                /\ depinNodes'[n].totalRewards = depinNodes[n].totalRewards
                /\ depinNodes'[n].reputationScore \in
                       {depinNodes[n].reputationScore, depinNodes[n].reputationScore \div 2}
       /\ nodeRewards' # nodeRewards
          => \E m \in NodeIds :
                 /\ depinNodes[m].status = "Active"
                 /\ depinNodes'[m].uptime # depinNodes[m].uptime
      ]_vars

\* a node slashed once has been the target of a further call, which found it
\* Slashed and left it Slashed
C12_Witness ==
    \E n \in Registered :
        /\ depinNodes[n].status = "Slashed"
        /\ depinNodes[n].reputationScore < 2500


\* C13: a metric update credits a reward (node reward plus level-up bonus)
\* only if the total supply plus that reward stays within MAX_SUPPLY;
\* otherwise the owner's reward balance, the node's cumulative rewards and
\* the network-wide reward counter are left as they are.
C13_RewardSkippedAboveCap ==
    [][/\ \A u \in Users :
             nodeRewards'[u] > nodeRewards[u]
             => totalSupply + (nodeRewards'[u] - nodeRewards[u]) <= MAX_SUPPLY
       /\ \A n \in NodeIds :
             depinNodes'[n].totalRewards > depinNodes[n].totalRewards
             => totalSupply + (depinNodes'[n].totalRewards - depinNodes[n].totalRewards)
                    <= MAX_SUPPLY
       /\ networkMetrics'.totalRewards > networkMetrics.totalRewards
          => totalSupply + (networkMetrics'.totalRewards - networkMetrics.totalRewards)
                 <= MAX_SUPPLY
      ]_vars


\* the settlement of user's stake would raise the supply above the cap
CapBlocks(user) ==
    /\ stakes[user].isActive
    /\ stakes[user].amount # 0
    /\ PendingReward(stakes[user]) > 0
    /\ totalSupply + PendingReward(stakes[user]) > MAX_SUPPLY

\* C14: when the settlement of a caller's stake would raise the total supply
\* above MAX_SUPPLY, claimRewards can still be called, and the call leaves
\* the total supply, every balance and every stake record (amount, start
\* time, accrued-reward counter) exactly as they were.
C14_CappedClaimIsNoOp ==
    /\ [](\A u \in Users : (CapBlocks(u) /\ stepsLeft > 0) => ENABLED claimRewards(u))
    /\ [][\A u \in Users :
             (CapBlocks(u) /\ claimRewards(u))
             => /\ totalSupply' = totalSupply
                /\ balances' = balances
                /\ stakes' = stakes
       ]_vars

\* the cap blocks a caller's settlement although there is room left under the
\* cap (a partial mint would be possible), and the caller can call claimRewards
C14_Witness ==
    \E u \in Users :
        /\ CapBlocks(u)
        /\ totalSupply < MAX_SUPPLY
        /\ ENABLED claimRewards(u)


\* C15: a stake record changes only through an accepted call: its amount
\* grows only by an amount that is at least the minimum and at most the
\* caller's balance before the call, it shrinks only for an active stake and
\* by at most the staked amount, and a cooldown or a reward settlement is
\* recorded only for a stake that was active; in every other step the stake
\* records are untouched, and totalStaked moves by exactly the accepted
\* amounts (plus that of a node deployment).
C15_RejectedStakeCallsChangeNothing ==
    [][/\ \A u \in Users :
             LET d == stakes'[u].amount - stakes[u].amount
             IN  /\ d > 0 => /\ d >= MIN_STAKE_AMOUNT
                              /\ d <= balances[u]
                              /\ balances'[TokenAddr] >= balances[TokenAddr] + d
                 /\ d < 0 => /\ stakes[u].isActive
                              /\ stakes'[u].amount >= 0
                 /\ stakes'[u].unstakeTime # stakes[u].unstakeTime => stakes[u].isActive
                 /\ stakes'[u].rewards # stakes[u].rewards => stakes[u].isActive
                 /\ (d = 0 /\ stakes'[u].unstakeTime = stakes[u].unstakeTime
                           /\ stakes'[u].rewards = stakes[u].rewards)
                    => stakes'[u] = stakes[u]
       /\ totalStaked' - totalStaked =
              SumOver([u \in Users |-> stakes'[u].amount - stakes[u].amount], Users)
              + (IF totalNodes' # totalNodes THEN nodes'[totalNodes'].stakedAmount ELSE 0)
      ]_vars

\* one holder has staked the whole balance, so that any further stake of at
\* least the minimum exceeds it, and another has unstaked everything, so that
\* no active stake is left to unstake from
C15_Witness ==
    \E u \in Users : \E v \in Users :
        /\ stakes[u].isActive
        /\ balances[u] < MIN_STAKE_AMOUNT
        /\ ~stakes[v].isActive
        /\ stakes[v].unstakeTime > 0


\* floor(floor(a * 1250 / 10000) * t / 1 year), with 1250 / 10000 = 1 / 8
ExpectedReward(a, t) == MulDiv(a \div 8, t, 365 * DAY)

\* C16: whenever a settlement is recorded for a stake of amount a started t
\* ago, the accrued-reward counter and the total supply grow by exactly
\* floor(floor(a * 1250 / 10000) * t / 1 year); a claimRewards call for an
\* active stake under the cap mints that amount to the owner and restarts
\* the stake clock, a claim with t = 0 changes nothing, and a = 1000 units
\* with t = one year gives 125 units.
C16_SettlementAmount ==
    [][\A u \in Users :
          LET a == stakes[u].amount
              t == now - stakes[u].timestamp
              expected == ExpectedReward(a, t)
          IN  /\ stakes'[u].rewards # stakes[u].rewards
                 => /\ stakes'[u].rewards - stakes[u].rewards = expected
                    /\ totalSupply' - totalSupply = expected
              /\ (claimRewards(u) /\ stakes[u].isActive /\ totalSupply + expected <= MAX_SUPPLY)
                 => /\ balances'[u] = balances[u] + expected
                    /\ totalSupply' = totalSupply + expected
                    /\ stakes'[u].rewards = stakes[u].rewards + expected
                    /\ expected > 0 => stakes'[u].timestamp = now
                    /\ t = 0 => UNCHANGED <<balances, totalSupply, stakes>>
                    /\ (a = 1000 * ONE_DAG /\ t = 365 * DAY) => expected = 125 * ONE_DAG
      ]_vars

\* a settlement has minted a reward in which both floors cut something off:
\* 1001 units staked for 100 days give floor(125 * 100 / 365) = 34 units
C16_Witness ==
    \E u \in Users :
        /\ stakes[u].amount = 1001 * ONE_DAG
        /\ stakes[u].rewards = 34 * ONE_DAG


\* C17: in a step that closes a challenge joined by fewer participants than
\* its minParticipants, no reward balance, achievement count or experience
\* total changes, whatever the recorded scores are.
C17_NoPayoutBelowQuorum ==
    [][\A c \in ChallengeIds :
          (/\ challenges[c].isActive
           /\ ~challenges'[c].isActive
           /\ Len(challenges[c].leaderboard) < challenges[c].minParticipants)
          => UNCHANGED <<nodeRewards, achievementCount, experiencePoints>>
      ]_vars

\* a challenge requiring 5 participants has been closed with 2 joined, one
\* of them holding a positive score
C17_Witness ==
    \E c \in ChallengeIds :
        /\ challenges[c].endTime > 0
        /\ ~challenges[c].isActive
        /\ Len(challenges[c].leaderboard) = 2
        /\ challenges[c].minParticipants = 5
        /\ \E u \in challenges[c].participants : challenges[c].scores[u] > 0


\* a challenge that has been created and then completed
Closed(c) == challenges[c].endTime > 0 /\ ~challenges[c].isActive

\* what a step adds to all reward balances together
Credited == SumOver([u \in Users |-> nodeRewards'[u] - nodeRewards[u]], Users)

\* C18: a challenge is closed only at or after its end time; once closed,
\* its record (active flag, participants, leaderboard, scores) never changes
\* again, so that every later join, score update or completion is rejected;
\* and reward balances and achievement counts change only in the step that
\* closes an active challenge, by that challenge's reward pool, hence at most
\* once per challenge.
C18_ClosedOnceNeverReopened ==
    [][/\ \A c \in ChallengeIds :
             /\ (challenges[c].isActive /\ ~challenges'[c].isActive)
                => now >= challenges[c].endTime
             /\ Closed(c) => challenges'[c] = challenges[c]
       /\ (nodeRewards' # nodeRewards \/ achievementCount' # achievementCount)
          => \E c \in ChallengeIds :
                 /\ challenges[c].isActive
                 /\ ~challenges'[c].isActive
                 /\ Credited = challenges[c].rewardPool
      ]_vars

\* a challenge has been closed and its pool credited to the winner, who
\* remains a participant with a recorded score
C18_Witness ==
    \E c \in ChallengeIds : \E u \in Users :
        /\ Closed(c)
        /\ u \in challenges[c].participants
        /\ challenges[c].scores[u] > 0
        /\ achievementCount[u] = 1
        /\ nodeRewards[u] = challenges[c].rewardPool


\* C19: a metric update of a node last active d whole days ago writes the
\* bonus-adjusted score (old score, plus 10 per new threat, plus 50 for an
\* uptime above one day, plus 25 for an efficiency above the threshold)
\* reduced by 1% per elapsed day when d >= 1, and undecayed when d = 0, in
\* both cases clamped to [0, 10000].
C19_DecayPerElapsedDay ==
    [][\A n \in Registered :
          depinNodes'[n].uptime # depinNodes[n].uptime
          => LET newThreats == depinNodes'[n].threatsDetected - depinNodes[n].threatsDetected
                 uptime == depinNodes'[n].uptime - depinNodes[n].uptime
                 adjusted == depinNodes[n].reputationScore
                             + newThreats * 10
                             + (IF uptime > DAY THEN 50 ELSE 0)
                             + (IF depinNodes'[n].energyEfficiency > ENERGY_EFFICIENCY_THRESHOLD
                                THEN 25 ELSE 0)
                 elapsedDays == (now - depinNodes[n].lastActiveTime) \div DAY
                 decay == (adjusted * 100 * elapsedDays) \div 10000
                 decayed == IF elapsedDays >= 1
                            THEN (IF adjusted > decay THEN adjusted - decay ELSE 0)
                            ELSE adjusted
             IN  depinNodes'[n].reputationScore =
                     (IF decayed > 10000 THEN 10000 ELSE decayed)
      ]_vars


\* C20: the reputation term of the reward computed by a metric update is
\* proportional to the node's base reward: compared with any other
\* registered node of the same reputation, the two reputation terms are in
\* the ratio of the two base rewards (and so of the two stakes).
C20_ReputationBonusProportionalToBase ==
    [][\A n \in Registered :
          depinNodes'[n].uptime # depinNodes[n].uptime
          => \A m \in Registered \ {n} :
                 depinNodes'[m].reputationScore = depinNodes'[n].reputationScore
                 => reputationMultiplier(depinNodes'[n]) * baseReward(depinNodes'[m])
                    = reputationMultiplier(depinNodes'[m]) * baseReward(depinNodes'[n])
      ]_vars


\* the call that resubmits the accepted payload p unchanged
Replay(p) ==
    updateNodeMetrics(p.nodeId, p.threatsDetected, p.uptime, p.energyEfficiency, p.signer)

\* C21 as stated: every payload accepted once can be submitted again for as
\* long as its node is Active.
C21_ReplayAlwaysAccepted ==
    \A p \in acceptedPayloads :
        (NodeIsActive(depinNodes[p.nodeId]) /\ stepsLeft > 0) => ENABLED Replay(p)

\* C21, amended: a payload accepted once can be submitted again for as long
\* as its node is Active and the node's stored threat count has not risen
\* above the count the payload carries; every such replay again adds the
\* payload's uptime to the node's cumulative uptime and again credits a
\* reward greater than zero to the owner.
C21_ReplayAcceptedUntilSuperseded ==
    /\ [](\A p \in acceptedPayloads :
             (/\ NodeIsActive(depinNodes[p.nodeId])
              /\ depinNodes[p.nodeId].threatsDetected <= p.threatsDetected
              /\ stepsLeft > 0)
             => ENABLED Replay(p))
    /\ [][\A p \in acceptedPayloads :
             Replay(p)
             => /\ depinNodes'[p.nodeId].uptime = depinNodes[p.nodeId].uptime + p.uptime
                /\ nodeRewards'[p.signer] > nodeRewards[p.signer]
                /\ depinNodes'[p.nodeId].totalRewards > depinNodes[p.nodeId].totalRewards
       ]_vars

\* one payload has been accepted twice: the node's cumulative uptime is twice
\* the uptime of the only payload ever accepted for it
C21_Witness ==
    \E p \in acceptedPayloads :
        /\ \A q \in acceptedPayloads : q.nodeId = p.nodeId => q = p
        /\ depinNodes[p.nodeId].uptime = 2 * p.uptime
        /\ depinNodes[p.nodeId].totalRewards >= 2 * baseReward(depinNodes[p.nodeId])


\* C22: no step lowers a node's cumulative threats-detected counter, and
\* the network-wide threat counter grows in every step by exactly the sum of
\* the nodes' increases, none of which is negative.
C22_ThreatCountNeverDecreases ==
    [][/\ \A n \in NodeIds :
             depinNodes'[n].threatsDetected >= depinNodes[n].threatsDetected
       /\ networkMetrics'.totalThreatsDetected - networkMetrics.totalThreatsDetected
          = SumOver([n \in NodeIds |-> depinNodes'[n].threatsDetected
                                        - depinNodes[n].threatsDetected], NodeIds)
      ]_vars

\* an Active node stores a threat count above the count of a payload that
\* was accepted for it earlier, so that a payload with a lower count exists
C22_Witness ==
    \E p \in acceptedPayloads :
        /\ NodeIsActive(depinNodes[p.nodeId])
        /\ p.threatsDetected < depinNodes[p.nodeId].threatsDetected


\* the relay record under key k has been created by an alert verification
RelayCreated(relays, k) == relays[k].targetChainId # 0

\* C23: a relay record is created, undelivered, in the step that verifies its
\* alert; its delivered flag is set only in a fulfillment step (one that
\* consumes a pending request) and only if the record was created before;
\* and a delivered flag never returns to false.
C23_RelayDeliveredOnlyAfterCreation ==
    [][\A k \in RelayKeys :
          /\ (~RelayCreated(crossChainAlerts, k) /\ RelayCreated(crossChainAlerts', k))
             => /\ ~crossChainAlerts'[k].isRelayed
                /\ ~threatAlerts[k[1]].isVerified
                /\ threatAlerts'[k[1]].isVerified
          /\ (~crossChainAlerts[k].isRelayed /\ crossChainAlerts'[k].isRelayed)
             => /\ RelayCreated(crossChainAlerts, k)
                /\ \E r \in pendingRequests : pendingRequests' = pendingRequests \ {r}
          /\ crossChainAlerts[k].isRelayed => crossChainAlerts'[k].isRelayed
      ]_vars

\* C24: in every reachable state the token contract's own balance is at least
\* totalStaked, and every holder of an active stake can unstake the whole
\* recorded amount (the call is accepted while transactions can still be sent).
C24_EscrowCoversStakes ==
    /\ balances[TokenAddr] >= totalStaked
    /\ \A u \in Users :
           (stakes[u].isActive /\ stepsLeft > 0) => ENABLED unstake(u, stakes[u].amount)

\* the stake amounts bound to the registered nodes
BoundStakes == SumOver([n \in NodeIds |-> depinNodes[n].stakeAmount], Registered)

\* C25: in every state reached through registerNode, updateNodeMetrics and
\* claimRewards the registry's token balance is at least the sum of the stake
\* amounts bound to the registered nodes.
C25_CollateralNeverSpent == balances[RegistryAddr] >= BoundStakes

\* C26: the registry's recorded active-node count equals the number of
\* registered nodes whose status is Active, also after slashNode has been
\* applied to a node that is already Slashed.
C26_ActiveCountMatchesStatus ==
    networkMetrics.activeNodes =
        Cardinality({ n \in Registered : depinNodes[n].status = "Active" })

\* the highest score the heuristic can assign: 20 + 15 + 10
MAX_HEURISTIC_SCORE == 45

\* C27: every processed vertex carries a score of at most 45, which is not
\* above the alert threshold; an alert record is written only in a step that
\* leaves the DAG and its pending queue alone (never by batch processing),
\* and every alert record has a submitter.
C27_NoSelfAlert ==
    /\ [](\A h \in TxHashes :
             dagTransactions[h].isProcessed
                 => /\ dagTransactions[h].threatLevel <= MAX_HEURISTIC_SCORE
                    /\ dagTransactions[h].threatLevel <= ALERT_THRESHOLD)
    /\ [](\A a \in AlertIds :
             threatAlerts[a].nodeConsensus > 0 => alertSubmitters[a] # {})
    /\ [][(threatAlerts' # threatAlerts \/ activeThreatAlerts' # activeThreatAlerts
              \/ totalThreatsDetected' # totalThreatsDetected)
             => UNCHANGED <<dagTransactions, pendingDAGTxs, totalDAGTransactions>>]_vars

\* a batch run has scored a vertex that triggers every heuristic
C27_Witness ==
    \E h \in TxHashes :
        dagTransactions[h].isProcessed /\ dagTransactions[h].threatLevel = MAX_HEURISTIC_SCORE

\* C28: a transaction hash occupies at most one slot of the pending queue.
C28_PendingHashesDistinct ==
    \A h \in TxHashes : Occurrences(pendingDAGTxs, h) <= 1

\* C29: every stake record flagged active holds at least MIN_STAKE_AMOUNT.
C29_ActiveStakeAtLeastMinimum ==
    \A u \in Users : stakes[u].isActive => stakes[u].amount >= MIN_STAKE_AMOUNT

\* C30: a step that tops up an active stake either mints the reward accrued
\* since the stake-start time to the owner or leaves the stake-start time
\* unchanged.
C30_TopUpKeepsAccruedReward ==
    [][\A u \in Users :
          (stakes[u].isActive /\ stakes'[u].amount > stakes[u].amount)
              => \/ /\ totalSupply' = totalSupply + PendingReward(stakes[u])
                    /\ balances'[u] + (stakes'[u].amount - stakes[u].amount)
                           = balances[u] + PendingReward(stakes[u])
                 \/ stakes'[u].timestamp = stakes[u].timestamp
      ]_vars

=============================================================================
